---- MODULE Spec2Model ----
(***************************************************************************)
(* Model of reproschema.models: SchemaBase (base.py) and Activity           *)
(* (activity.py).  One entity is followed through construction, the        *)
(* setters, update / sort / write and from_data / from_file.                *)
(*                                                                         *)
(* Encoding.  A Python str is a sequence of one-character strings (a few   *)
(* fixed texts that no string operation inspects are kept as one token).   *)
(* None-or-value arguments are sequences of length 0 (None) or 1.  A dict  *)
(* keyed by language is a function whose domain is the set of keys.  The   *)
(* serializable structure `schema` is an insertion-ordered dict: a         *)
(* sequence of <<key, value>> pairs, value = [k |-> kind, v |-> payload].  *)
(***************************************************************************)
EXTENDS Naturals, Sequences, FiniteSets, TLC

VARIABLES
    pc,       \* "new" before the constructor ran, "ready", or "failed" (constructor raised)
    ent,      \* the entity: its attributes, its ui object and its schema
    err,      \* exception raised by the last call, "none" when it returned
    lastOp,   \* name of the last call
    arg,      \* arguments of the last call
    disk,     \* the file produced by the last write(): <<[name, doc]>>, <<>> when none
    orig,     \* the file a loaded entity was loaded from (round trip bookkeeping)
    rt,       \* "none", "loaded" (just loaded from disk), "rewritten" (then written)
    steps     \* number of calls made so far

vars == <<pc, ent, err, lastOp, arg, disk, orig, rt, steps>>

-----------------------------------------------------------------------------
(* Bounds of the exploration *)

MaxSteps == 4
MaxNameLen == 2
MaxOrder == 2

-----------------------------------------------------------------------------
(* Strings *)

None == <<>>
Some(x) == <<x>>

EndsWith(s, t) ==
    /\ Len(t) <= Len(s)
    /\ SubSeq(s, Len(s) - Len(t) + 1, Len(s)) = t

StartsWith(s, t) ==
    /\ Len(t) <= Len(s)
    /\ SubSeq(s, 1, Len(t)) = t

\* str.replace(old, new): every non-overlapping occurrence, left to right
RECURSIVE Replace(_, _, _)
Replace(s, old, new) ==
    IF old = <<>>
    THEN new \o (IF s = <<>> THEN <<>> ELSE <<Head(s)>> \o Replace(Tail(s), old, new))
    ELSE IF Len(s) < Len(old) THEN s
    ELSE IF SubSeq(s, 1, Len(old)) = old
         THEN new \o Replace(SubSeq(s, Len(old) + 1, Len(s)), old, new)
         ELSE <<Head(s)>> \o Replace(Tail(s), old, new)

\* os.path.join(a, p)
PathJoin(a, p) ==
    IF StartsWith(p, <<"/">>) THEN p
    ELSE IF a = <<>> \/ EndsWith(a, <<"/">>) THEN a \o p
    ELSE a \o <<"/">> \o p

\* pathlib.Path(name).stem for a name without directory separator
Stem(s) ==
    LET dots == {i \in 1..Len(s) : s[i] = "."}
        last == CHOOSE i \in dots : \A j \in dots : j <= i
    IN  IF dots # {} /\ 1 < last /\ last < Len(s)
        THEN SubSeq(s, 1, last - 1)
        ELSE s

RECURSIVE StringsUpTo(_, _)
StringsUpTo(alphabet, n) ==
    IF n = 0 THEN {<<>>}
    ELSE LET shorter == StringsUpTo(alphabet, n - 1)
         IN  shorter \cup {Append(s, c) : s \in shorter, c \in alphabet}

-----------------------------------------------------------------------------
(* Values held by the schema *)

StrV(s) == [k |-> "str", v |-> s]
DictV(d) == [k |-> "dict", v |-> d]
ListV(l) == [k |-> "list", v |-> l]
NoneV == [k |-> "none", v |-> <<>>]
UiV(u) == [k |-> "ui", v |-> u]

EmptyDict == <<>>

DictSet(d, key, val) ==
    [x \in (DOMAIN d) \cup {key} |-> IF x = key THEN val ELSE d[x]]

\* value in [{}, [], "", None]
IsEmptyValue(x) ==
    \/ x.k = "none"
    \/ x.k \in {"str", "list"} /\ Len(x.v) = 0
    \/ x.k = "dict" /\ DOMAIN x.v = {}

Keys(s) == [i \in 1..Len(s) |-> s[i][1]]

HasKey(s, key) == \E i \in 1..Len(s) : s[i][1] = key

SchemaGet(s, key) == s[CHOOSE i \in 1..Len(s) : s[i][1] = key][2]

\* schema[key] = val on an insertion-ordered dict
SchemaSet(s, key, val) ==
    IF HasKey(s, key)
    THEN [i \in 1..Len(s) |-> IF s[i][1] = key THEN <<key, val>> ELSE s[i]]
    ELSE Append(s, <<key, val>>)

RECURSIVE SchemaSetAll(_, _)
SchemaSetAll(s, kvs) ==
    IF kvs = <<>> THEN s
    ELSE SchemaSetAll(SchemaSet(s, Head(kvs)[1], Head(kvs)[2]), Tail(kvs))

-----------------------------------------------------------------------------
(* Constants of base.py and activity.py *)

DEFAULT_LANG == "en"

DEFAULT_VERSION == <<"1.0.0-rc4">>

DEFAULT_PACKAGE_VERSION == <<"0.0.1">>

COMMON_SCHEMA_ORDER ==
    <<"@context", "@type", "@id", "schemaVersion", "version", "prefLabel",
      "altLabel", "description", "preamble", "image", "ui">>

ACTIVITY_SCHEMA_ORDER == COMMON_SCHEMA_ORDER \o <<"citation", "compute">>

TypeEnum ==
    {"reproschema:Protocol", "reproschema:Activity", "reproschema:Field",
     "reproschema:ResponseOption"}

ACTIVITY_TYPE == "reproschema:Activity"

\* validator=in_([...]) of at_type
at_type_validator_any(v) == TRUE

at_type_validator(v) == v \in TypeEnum

_default_context(schemaVersion) ==
    <<"https://raw.githubusercontent.com/ReproNim/reproschema/">>
        \o schemaVersion \o <<"/contexts/generic">>

ACTIVITY == <<"a", "c", "t", "i", "v", "i", "t", "y">>
PROTOCOL == <<"p", "r", "o", "t", "o", "c", "o", "l">>
ITEM == <<"i", "t", "e", "m">>

PLACEHOLDERS == {PROTOCOL, ACTIVITY, ITEM}

DEFAULT_SUFFIX == <<"_", "s", "c", "h", "e", "m", "a">>
DEFAULT_EXT == <<".", "j", "s", "o", "n", "l", "d">>
CWD == <<"cwd">>


-----------------------------------------------------------------------------
(* The UI sub-document and the Item handed to append_item.  ui.py and      *)
(* item.py are not part of the sources at hand; these follow the           *)
(* documented behaviour of the UI object.                                  *)

\* UI(at_type=..., readonlyValue=...): nothing appended, shuffle not set
UI_new == [order |-> <<>>, shuffle |-> "None", schema |-> [shuffle |-> "None", order |-> <<>>]]

\* UI.update(): project the UI attributes into the UI's own schema
UI_update(u) == [u EXCEPT !.schema = [shuffle |-> u.shuffle, order |-> u.order]]

\* UI.append(obj, variableName): one more order entry, no deduplication
UI_append(u, obj, variableName) ==
    UI_update([u EXCEPT !.order =
        Append(@, [variableName |-> variableName, isAbout |-> obj.at_id])])

ItemIds == {<<"q", "_", "s", ".", "j">>, <<"r", ".", "j">>}

Items == {[at_id |-> i] : i \in ItemIds}

-----------------------------------------------------------------------------
(* SchemaUtils (utils.py, not part of the sources at hand): the ordering   *)
(* utility and the removal of empty values, as documented.                 *)

RECURSIVE reorder_dict_skip_missing(_, _)
reorder_dict_skip_missing(old_dict, key_list) ==
    IF key_list = <<>> THEN <<>>
    ELSE LET key == Head(key_list)
             rest == reorder_dict_skip_missing(old_dict, Tail(key_list))
         IN  IF HasKey(old_dict, key)
             THEN <<<<key, SchemaGet(old_dict, key)>>>> \o rest
             ELSE rest

sort_schema(e) ==
    [e EXCEPT !.schema = reorder_dict_skip_missing(e.schema, e.schema_order)]

drop_empty_values_from_schema(e) ==
    [e EXCEPT !.schema = SelectSeq(e.schema, LAMBDA kv : ~IsEmptyValue(kv[2]))]

-----------------------------------------------------------------------------
(* SchemaBase *)

\* update_ui(): refresh the ui object's schema and store it under "ui"
update_ui(e) ==
    LET u == UI_update(e.ui)
    IN  [e EXCEPT !.ui = u, !.schema = SchemaSet(e.schema, "ui", UiV(u.schema))]

\* update(): copy every schema-visible attribute into the schema, then update_ui()
update(e) ==
    update_ui([e EXCEPT !.schema = SchemaSetAll(e.schema,
        << <<"@id", StrV(e.at_id)>>,
           <<"@type", StrV(<<e.at_type>>)>>,
           <<"@context", StrV(e.at_context)>>,
           <<"schemaVersion", StrV(e.schemaVersion)>>,
           <<"version", StrV(e.version)>>,
           <<"prefLabel", DictV(e.prefLabel)>>,
           <<"altLabel", DictV(e.altLabel)>>,
           <<"description", StrV(e.description)>>,
           <<"citation", StrV(e.citation)>>,
           <<"image", e.image>>,
           <<"preamble", DictV(e.preamble)>>,
           <<"landingPage", DictV(e.landingPage)>>,
           <<"compute", ListV(e.compute)>>,
           <<"question", DictV(e.question)>> >>)])

set_preamble(e, preamble, lang) ==
    IF preamble = None THEN e
    ELSE LET l == IF lang = None THEN e.lang ELSE lang[1]
         IN  update([e EXCEPT !.preamble = DictSet(@, l, preamble[1])])

set_landing_page(e, page, lang) ==
    IF page = None THEN e
    ELSE LET l == IF lang = None THEN e.lang ELSE lang[1]
         IN  update([e EXCEPT !.landingPage = [id |-> page[1], inLanguage |-> l]])

\* set_compute with the closing self.update() left out
set_compute_no_update(e, variable, expression) ==
    [e EXCEPT !.compute =
        <<[variableName |-> variable, jsExpression |-> expression]>>]

set_compute(e, variable, expression) ==
    update([e EXCEPT !.compute =
        <<[variableName |-> variable, jsExpression |-> expression]>>])

set_filename(e, name) ==
    LET n0 == IF name = None THEN e.at_id ELSE name[1]
        n1 == IF EndsWith(n0, e.ext) THEN Replace(n0, e.ext, <<>>) ELSE n0
        n2 == IF EndsWith(n1, e.suffix) THEN Replace(n1, e.suffix, <<>>) ELSE n1
        n3 == Replace(n2, <<" ">>, <<"_">>)
        id == n3 \o e.suffix \o e.ext
    IN  update([e EXCEPT !.at_id = id, !.URI = PathJoin(e.output_dir, id)])

\* set_alt_label reads self.alt_label, which is no attribute of the class
\* (the attribute is altLabel): the read raises AttributeError
set_alt_label_raises(e, alt_label) == alt_label # None

\* the only path of set_alt_label that returns: alt_label is None
set_alt_label(e, alt_label, lang) == e

\* self.prefLabel[lang] = pref_label; self.update()
store_pref_label(e, pref_label, lang) ==
    update([e EXCEPT !.prefLabel = DictSet(@, lang, pref_label)])

\* self.prefLabel[DEFAULT_LANG()] raises KeyError when the mapping is not
\* empty and has no entry for the default language
set_pref_label_raises(e, pref_label) ==
    /\ pref_label = None
    /\ DOMAIN e.prefLabel # {}
    /\ DEFAULT_LANG \notin DOMAIN e.prefLabel

\* set_pref_label re-deriving the label whatever the current label is
set_pref_label_always(e, pref_label, lang) ==
    IF pref_label = None
    THEN store_pref_label(e, Replace(e.at_id, <<"_">>, <<" ">>), e.lang)
    ELSE store_pref_label(e, pref_label[1], IF lang = None THEN e.lang ELSE lang[1])

set_pref_label(e, pref_label, lang) ==
    IF pref_label = None
    THEN IF DOMAIN e.prefLabel = {} \/ e.prefLabel[DEFAULT_LANG] \in PLACEHOLDERS
         THEN store_pref_label(e, Replace(e.at_id, <<"_">>, <<" ">>), e.lang)
         ELSE e
    ELSE store_pref_label(e, pref_label[1], IF lang = None THEN e.lang ELSE lang[1])

get_basename(e) == Stem(e.at_id)

\* sort() with a full update() ahead of the reordering
sort_update_first(e) == update_ui(sort_schema(update(e)))

sort(e) == update_ui(sort_schema(e))

\* write() without the removal of the empty values
write_keep_empty(e) == sort(e)

\* write(): the entity after sort() and drop_empty_values_from_schema();
\* json.dump then stores its schema under the name at_id
write(e) == drop_empty_values_from_schema(sort(e))

-----------------------------------------------------------------------------
(* Activity *)

\* the attrs-generated __init__ of SchemaBase, as called by Activity.__init__
attrs_init(name, prefLabel, lang, suffix, ext, output_dir) ==
    [ at_type       |-> ACTIVITY_TYPE,
      at_id         |-> name,
      schemaVersion |-> DEFAULT_VERSION,
      version       |-> DEFAULT_PACKAGE_VERSION,
      at_context    |-> _default_context(DEFAULT_VERSION),
      prefLabel     |-> [l \in {lang} |-> prefLabel],
      altLabel      |-> EmptyDict,
      description   |-> <<>>,
      image         |-> NoneV,
      preamble      |-> EmptyDict,
      landingPage   |-> EmptyDict,
      citation      |-> <<>>,
      compute       |-> <<>>,
      question      |-> EmptyDict,
      ui            |-> UI_new,
      lang          |-> lang,
      output_dir    |-> output_dir,
      suffix        |-> suffix,
      ext           |-> ext,
      URI           |-> <<>>,
      schema_order  |-> ACTIVITY_SCHEMA_ORDER,
      schema        |-> <<>> ]

\* __attrs_post_init__ up to the call of set_pref_label()
post_init_description(e) ==
    IF e.description = <<>>
    THEN [e EXCEPT !.description = Replace(e.at_id, <<"_">>, <<" ">>)]
    ELSE e

Activity_init_raises(name, prefLabel, lang, suffix, ext, output_dir) ==
    set_pref_label_raises(
        post_init_description(attrs_init(name, prefLabel, lang, suffix, ext, output_dir)),
        None)

Activity_init(name, prefLabel, lang, suffix, ext, output_dir) ==
    LET e1 == post_init_description(attrs_init(name, prefLabel, lang, suffix, ext, output_dir))
        e2 == set_pref_label(e1, None, None)
        e3 == set_filename(e2, None)
    IN  update([e3 EXCEPT !.ui.shuffle = "False"])

\* append_item with an item already in the order list skipped
append_item_dedup(e, item) ==
    IF \E i \in 1..Len(e.ui.order) : e.ui.order[i].isAbout = item.at_id
    THEN e
    ELSE [e EXCEPT !.ui = UI_append(e.ui, item, get_basename(item))]

append_item(e, item) ==
    [e EXCEPT !.ui = UI_append(e.ui, item, get_basename(item))]

\* cls() in from_data: the Activity built from the defaults of its signature
DefaultActivity == Activity_init(ACTIVITY, ACTIVITY, DEFAULT_LANG, DEFAULT_SUFFIX, DEFAULT_EXT, CWD)

ERR_NONE == "none"
ERR_MISMATCH == "ValueError: Mismatch in type"
ERR_MISSING_TYPE == "ValueError: Missing @type key"
ERR_KEY == "KeyError"
ERR_ATTRIBUTE == "AttributeError"
ERR_VALIDATOR == "ValueError: validator"

\* the exception from_data(data) ends with, ERR_NONE when it returns
from_data_error(data) ==
    IF ~HasKey(data, "@type") THEN ERR_KEY
    ELSE IF StrV(<<DefaultActivity.at_type>>) # SchemaGet(data, "@type") THEN ERR_MISMATCH
    ELSE ERR_NONE

\* from_data rebuilding the id and the citation attributes from the loaded data
from_data_parse(data) ==
    [DefaultActivity EXCEPT
        !.schema = data,
        !.at_id = IF HasKey(data, "@id") THEN SchemaGet(data, "@id").v ELSE @,
        !.citation = IF HasKey(data, "citation") THEN SchemaGet(data, "citation").v ELSE @]

from_data(data) == [DefaultActivity EXCEPT !.schema = data]

from_file_error(data) ==
    IF ~HasKey(data, "@type") THEN ERR_MISSING_TYPE
    ELSE from_data_error(data)

from_file(data) == from_data(data)


-----------------------------------------------------------------------------
(* Inputs of the calls *)

Langs == {"en", "fr"}

SHORT_SUFFIX == <<"_", "s">>
SHORT_EXT == <<".", "j">>
OUT == <<"out">>

\* (suffix, ext) pairs handed to the constructor
FileStyles == {<<DEFAULT_SUFFIX, DEFAULT_EXT>>, <<SHORT_SUFFIX, SHORT_EXT>>, <<<<>>, SHORT_EXT>>}

\* (name, prefLabel, (suffix, ext)) handed to the constructor
Configs ==
    { <<ACTIVITY, ACTIVITY, <<DEFAULT_SUFFIX, DEFAULT_EXT>> >>,
      <<<<"a", "_", "b">>, ACTIVITY, <<SHORT_SUFFIX, SHORT_EXT>> >>,
      <<<<"a", "_", "b">>, <<"L">>, <<SHORT_SUFFIX, SHORT_EXT>> >> }
Texts == {<<"t">>}

\* the characters the short suffix and extension are made of, a letter and a space
Alphabet == {"a", " ", "_", "s", ".", "j"}

AllNames == StringsUpTo(Alphabet, MaxNameLen)

OptOf(S) == {None} \cup {Some(x) : x \in S}

TypeV(tag) == StrV(<<tag>>)

\* mappings handed to from_data / from_file besides the files written before
DataSamples ==
    { <<>>,
      << <<"@id", StrV(<<"x">>)>> >>,
      << <<"@type", TypeV("reproschema:Protocol")>> >>,
      << <<"@type", TypeV(ACTIVITY_TYPE)>>, <<"citation", StrV(<<"c">>)>> >>,
      << <<"compute", ListV(<<>>)>>, <<"@type", TypeV(ACTIVITY_TYPE)>>,
         <<"altLabel", DictV(EmptyDict)>>, <<"note", StrV(<<"n">>)>> >> }

-----------------------------------------------------------------------------
(* Actions: one per call *)

NoEntity == <<>>

Init ==
    /\ pc = "new"
    /\ ent = NoEntity
    /\ err = ERR_NONE
    /\ lastOp = "none"
    /\ arg = <<>>
    /\ disk = <<>>
    /\ orig = <<>>
    /\ rt = "none"
    /\ steps = 0

\* a call on the entity that is neither a load nor a write
Called(op, a, e, error) ==
    /\ lastOp' = op
    /\ arg' = a
    /\ ent' = e
    /\ err' = error
    /\ steps' = steps + 1
    /\ rt' = "none"
    /\ orig' = <<>>
    /\ UNCHANGED <<pc, disk>>

CanCall == pc = "ready" /\ steps < MaxSteps

\* Activity(name=..., prefLabel=..., lang=..., suffix=..., ext=..., output_dir=...)
Construct(name, prefLabel, lang, style, output_dir) ==
    /\ pc = "new"
    /\ lastOp' = "construct"
    /\ arg' = [name |-> name, prefLabel |-> prefLabel, lang |-> lang,
               suffix |-> style[1], ext |-> style[2], output_dir |-> output_dir]
    /\ IF Activity_init_raises(name, prefLabel, lang, style[1], style[2], output_dir)
       THEN /\ pc' = "failed"
            /\ ent' = NoEntity
            /\ err' = ERR_KEY
       ELSE /\ pc' = "ready"
            /\ ent' = Activity_init(name, prefLabel, lang, style[1], style[2], output_dir)
            /\ err' = ERR_NONE
    /\ steps' = steps + 1
    /\ UNCHANGED <<disk, orig, rt>>

SetPreamble(preamble, lang) ==
    /\ CanCall
    /\ Called("set_preamble", [preamble |-> preamble, lang |-> lang],
              set_preamble(ent, preamble, lang), ERR_NONE)

SetLandingPage(page, lang) ==
    /\ CanCall
    /\ Called("set_landing_page", [page |-> page, lang |-> lang],
              set_landing_page(ent, page, lang), ERR_NONE)

SetCompute(variable, expression) ==
    /\ CanCall
    /\ Called("set_compute", [variable |-> variable, expression |-> expression],
              set_compute(ent, variable, expression), ERR_NONE)

SetFilename(name) ==
    /\ CanCall
    /\ Called("set_filename", [name |-> name], set_filename(ent, name), ERR_NONE)

SetAltLabel(alt_label, lang) ==
    /\ CanCall
    /\ IF set_alt_label_raises(ent, alt_label)
       THEN Called("set_alt_label", [alt_label |-> alt_label, lang |-> lang],
                   ent, ERR_ATTRIBUTE)
       ELSE Called("set_alt_label", [alt_label |-> alt_label, lang |-> lang],
                   set_alt_label(ent, alt_label, lang), ERR_NONE)

SetPrefLabel(pref_label, lang) ==
    /\ CanCall
    /\ IF set_pref_label_raises(ent, pref_label)
       THEN Called("set_pref_label", [pref_label |-> pref_label, lang |-> lang],
                   ent, ERR_KEY)
       ELSE Called("set_pref_label", [pref_label |-> pref_label, lang |-> lang],
                   set_pref_label(ent, pref_label, lang), ERR_NONE)

AppendItem(item) ==
    /\ CanCall
    /\ Len(ent.ui.order) < MaxOrder
    /\ Called("append_item", [item |-> item], append_item(ent, item), ERR_NONE)

Update ==
    /\ CanCall
    /\ Called("update", <<>>, update(ent), ERR_NONE)

Sort ==
    /\ CanCall
    /\ Called("sort", <<>>, sort(ent), ERR_NONE)

\* entity.at_type = v: the converter and validator of the field run on assignment
AssignAtType(v) ==
    /\ CanCall
    /\ IF at_type_validator(v)
       THEN Called("assign_at_type", [value |-> v], [ent EXCEPT !.at_type = v], ERR_NONE)
       ELSE Called("assign_at_type", [value |-> v], ent, ERR_VALIDATOR)

\* entity.at_context = v
AssignAtContext(v) ==
    /\ CanCall
    /\ Called("assign_at_context", [value |-> v], [ent EXCEPT !.at_context = v], ERR_NONE)

\* entity.citation = v
AssignCitation(v) ==
    /\ CanCall
    /\ Called("assign_citation", [value |-> v], [ent EXCEPT !.citation = v], ERR_NONE)

Write ==
    /\ CanCall
    /\ lastOp' = "write"
    /\ arg' = <<>>
    /\ ent' = write(ent)
    /\ err' = ERR_NONE
    /\ disk' = <<[name |-> ent.at_id, doc |-> write(ent).schema]>>
    /\ rt' = IF rt = "loaded" THEN "rewritten" ELSE "none"
    /\ orig' = IF rt = "loaded" THEN orig ELSE <<>>
    /\ steps' = steps + 1
    /\ UNCHANGED pc

\* a load: the class method returns a new entity or raises
Loaded(op, data, error, e, fromDisk) ==
    /\ pc \in {"new", "ready"}
    /\ steps < MaxSteps
    /\ lastOp' = op
    /\ arg' = [data |-> data]
    /\ err' = error
    /\ IF error = ERR_NONE
       THEN /\ ent' = e
            /\ pc' = "ready"
            /\ rt' = IF fromDisk THEN "loaded" ELSE "none"
            /\ orig' = IF fromDisk THEN disk ELSE <<>>
       ELSE /\ UNCHANGED <<ent, pc>>
            /\ rt' = "none"
            /\ orig' = <<>>
    /\ steps' = steps + 1
    /\ UNCHANGED disk

FromData(data) == Loaded("from_data", data, from_data_error(data), from_data(data), FALSE)

FromFile(data) == Loaded("from_file", data, from_file_error(data), from_file(data), FALSE)

\* the file written last, read back
FromDataWritten ==
    /\ disk # <<>>
    /\ Loaded("from_data", disk[1].doc, from_data_error(disk[1].doc),
              from_data(disk[1].doc), TRUE)

FromFileWritten ==
    /\ disk # <<>>
    /\ Loaded("from_file", disk[1].doc, from_file_error(disk[1].doc),
              from_file(disk[1].doc), TRUE)

Next ==
    \/ \E c \in Configs, l \in Langs : Construct(c[1], c[2], l, c[3], OUT)
    \/ \E t \in OptOf(Texts), l \in OptOf({"fr"}) : SetPreamble(t, l)
    \/ \E t \in OptOf(Texts) : SetLandingPage(t, None)
    \/ SetCompute(<<"v">>, <<"x">>)
    \/ \E n \in OptOf({<<"a", " ", "s">>}) : SetFilename(n)
    \/ \E t \in OptOf(Texts), l \in OptOf({"fr"}) : SetAltLabel(t, l)
    \/ \E t \in OptOf({<<"L">>}), l \in OptOf({"fr"}) : SetPrefLabel(t, l)
    \/ \E i \in Items : AppendItem(i)
    \/ Update
    \/ Sort
    \/ \E v \in {"reproschema:Protocol", "bogus"} : AssignAtType(v)
    \/ AssignAtContext(<<"../../contexts/generic">>)
    \/ AssignCitation(<<"c">>)
    \/ Write
    \/ \E d \in DataSamples : FromData(d)
    \/ \E d \in {s \in DataSamples : Len(s) <= 1} : FromFile(d)
    \/ FromDataWritten
    \/ FromFileWritten

Spec == Init /\ [][Next]_vars

\* construction and set_filename alone, over every name of the alphabet
NextFilename ==
    \/ \E n \in AllNames, st \in FileStyles : Construct(n, ACTIVITY, "en", st, OUT)
    \/ \E n \in OptOf(AllNames) : SetFilename(n)

SpecFilename == Init /\ [][NextFilename]_vars

\* construction followed by the setters that end with update()
NextSetters ==
    \/ \E c \in Configs, l \in Langs : Construct(c[1], c[2], l, c[3], OUT)
    \/ \E t \in OptOf(Texts), l \in OptOf(Langs) : SetPreamble(t, l)
    \/ \E t \in OptOf(Texts), l \in OptOf(Langs) : SetLandingPage(t, l)
    \/ SetCompute(<<"v">>, <<"x">>)
    \/ \E n \in OptOf({<<"a", " ", "s">>, <<"b">>}) : SetFilename(n)
    \/ \E t \in OptOf({<<"L">>, ITEM}), l \in OptOf(Langs) : SetPrefLabel(t, l)

SpecSetters == Init /\ [][NextSetters]_vars


-----------------------------------------------------------------------------
(* Properties *)

Ready == pc = "ready"

IndexIn(seq, x) == CHOOSE i \in 1..Len(seq) : seq[i] = x

\* keys is a duplicate-free subsequence of order
IsCanonical(keys, order) ==
    /\ \A i \in 1..Len(keys) : \E j \in 1..Len(order) : order[j] = keys[i]
    /\ \A i, j \in 1..Len(keys) :
           i < j => IndexIn(order, keys[i]) < IndexIn(order, keys[j])

NoSpace(s) == \A i \in 1..Len(s) : s[i] # " "

\* C1: immediately after sort() the top-level keys of the structure are a
\* duplicate-free subsequence of the variant's canonical key order, for an
\* entity built by the constructor or returned by from_data / from_file.
C1_KeysCanonicalAfterSort ==
    (Ready /\ lastOp = "sort") => IsCanonical(Keys(ent.schema), ent.schema_order)

\* C2: the document persisted by write() holds no top-level key whose value
\* is the empty string, an empty mapping, an empty sequence or null.
C2_NoEmptyValueWritten ==
    lastOp = "write" =>
        \A i \in 1..Len(disk[1].doc) : ~IsEmptyValue(disk[1].doc[i][2])

\* a written document that lacks the keys of the attributes left empty
\* (altLabel, citation, image) and keeps the others
C2_Witness ==
    /\ lastOp = "write"
    /\ DOMAIN ent.altLabel = {}
    /\ ent.citation = <<>>
    /\ ent.image = NoneV
    /\ ~HasKey(disk[1].doc, "altLabel")
    /\ ~HasKey(disk[1].doc, "citation")
    /\ ~HasKey(disk[1].doc, "image")
    /\ HasKey(disk[1].doc, "prefLabel")
    /\ HasKey(disk[1].doc, "preamble")

\* the name still ends with the extension, the suffix, or both
KeepsSuffixOrExt(n, suffix, ext) ==
    \/ ext # <<>> /\ EndsWith(n, ext)
    \/ suffix # <<>> /\ EndsWith(n, suffix)

\* C3: after construction and any set_filename calls the id is
\* {sanitized name}{suffix}{ext}, the sanitized name has no space and no
\* suffix or extension left on it, the structure's @id is the id and URI is
\* output_dir joined with the id.
C3_IdForm ==
    Ready =>
        LET tail == ent.suffix \o ent.ext
            n == SubSeq(ent.at_id, 1, Len(ent.at_id) - Len(tail))
        IN  /\ EndsWith(ent.at_id, tail)
            /\ NoSpace(n)
            /\ ~KeepsSuffixOrExt(n, ent.suffix, ent.ext)
            /\ SchemaGet(ent.schema, "@id") = StrV(ent.at_id)
            /\ ent.URI = PathJoin(ent.output_dir, ent.at_id)

\* C4: set_filename(name) followed by set_filename with the same name or
\* with no argument leaves id and URI as the first call produced them.
C4_SetFilenameIdempotent ==
    [][ ( /\ lastOp = "set_filename"
          /\ arg.name # None
          /\ lastOp' = "set_filename"
          /\ (arg'.name = None \/ arg'.name = arg.name) )
        => (ent'.at_id = ent.at_id /\ ent'.URI = ent.URI) ]_vars

SameFile(a, b) ==
    /\ a.name = b.name
    /\ Keys(a.doc) = Keys(b.doc)
    /\ \A i \in 1..Len(a.doc) : a.doc[i][2] = b.doc[i][2]

\* C5: a written document loaded through from_data / from_file and written
\* again, with no mutation in between, gives the same file name and the
\* same document.
C5_RoundTrip ==
    rt = "rewritten" => SameFile(disk[1], orig[1])

\* C6: a load returns an entity exactly when the data has an @type equal to
\* the variant's tag; another tag ends with the type-mismatch error, no
\* @type ends with the missing-@type validation error, and on success the
\* entity's structure is the given data.
C6_LoadIffTypeMatches ==
    lastOp \in {"from_data", "from_file"} =>
        LET data == arg.data
            has == HasKey(data, "@type")
            match == has /\ SchemaGet(data, "@type") = TypeV(ACTIVITY_TYPE)
        IN  /\ (err = ERR_NONE) <=> match
            /\ (has /\ ~match) => err = ERR_MISMATCH
            /\ ~has => err = ERR_MISSING_TYPE
            /\ err = ERR_NONE => ent.schema = data

\* C7 as stated: the type tag and the structure's @type stay the tag fixed at
\* construction, whatever is called or assigned.
C7_TypeTagImmutable ==
    Ready =>
        /\ ent.at_type = ACTIVITY_TYPE
        /\ HasKey(ent.schema, "@type") =>
               SchemaGet(ent.schema, "@type") = TypeV(ACTIVITY_TYPE)

IsLoad(op) == op \in {"from_data", "from_file"}

\* C7 amended: a new entity carries the variant's tag; the tag stays within
\* the enumeration; only a direct assignment of an enumerated value changes
\* it; an assignment outside the enumeration is rejected and changes nothing.
C7_TypeTagValidated ==
    [][ /\ (pc' = "ready" /\ (pc = "new" \/ (IsLoad(lastOp') /\ err' = ERR_NONE)))
            => ent'.at_type = ACTIVITY_TYPE
        /\ (Ready /\ pc' = "ready") =>
            /\ ent'.at_type \in TypeEnum
            /\ HasKey(ent'.schema, "@type") =>
                   SchemaGet(ent'.schema, "@type").v[1] \in TypeEnum
            /\ ent'.at_type # ent.at_type =>
                   \/ IsLoad(lastOp')
                   \/ /\ lastOp' = "assign_at_type"
                      /\ arg'.value \in TypeEnum
                      /\ ent'.at_type = arg'.value
            /\ (lastOp' = "assign_at_type" /\ arg'.value \notin TypeEnum) =>
                   (err' = ERR_VALIDATOR /\ ent' = ent) ]_vars

\* a direct assignment has replaced the tag of an Activity
C7_Witness ==
    /\ Ready
    /\ lastOp = "assign_at_type"
    /\ err = ERR_NONE
    /\ ent.at_type = "reproschema:Protocol"

\* C8: constructing an Activity with any name, any language code and the
\* label supplied or omitted completes without error, and prefLabel holds,
\* under the configured language, the supplied text or, when omitted, the
\* name with underscores replaced by spaces.
C8_ConstructCompletes ==
    lastOp = "construct" =>
        /\ Ready
        /\ err = ERR_NONE
        /\ arg.lang \in DOMAIN ent.prefLabel
        /\ ent.prefLabel[arg.lang] =
               IF arg.prefLabel = ACTIVITY
               THEN Replace(arg.name, <<"_">>, <<" ">>)
               ELSE arg.prefLabel

\* C9: set_alt_label(text, lang) with a text stores it under lang (the
\* entity's language when lang is omitted), keeps the other entries,
\* re-projects altLabel into the structure and completes without error.
C9_SetAltLabelStores ==
    [][ (lastOp' = "set_alt_label" /\ arg'.alt_label # None) =>
            LET l == IF arg'.lang = None THEN ent.lang ELSE arg'.lang[1]
            IN  /\ err' = ERR_NONE
                /\ ent'.altLabel = DictSet(ent.altLabel, l, arg'.alt_label[1])
                /\ SchemaGet(ent'.schema, "altLabel") = DictV(ent'.altLabel) ]_vars

\* C10: every append_item call lengthens the ui order list by exactly one
\* entry for the item, at the end, without error, also when the item is in
\* the list already.
C10_AppendItemAppends ==
    [][ lastOp' = "append_item" =>
            /\ err' = ERR_NONE
            /\ ent'.ui.order =
                   Append(ent.ui.order,
                          [variableName |-> get_basename(arg'.item),
                           isAbout |-> arg'.item.at_id]) ]_vars

\* the same Item appended twice: two entries for it
C10_Witness ==
    /\ Ready
    /\ lastOp = "append_item"
    /\ Len(ent.ui.order) = 2
    /\ ent.ui.order[1] = ent.ui.order[2]


\* every schema-visible attribute is in the structure with its current value
\* and the structure's ui is the ui object's structure
IsProjection(e) ==
    /\ \A key \in {"@id", "@type", "@context", "schemaVersion", "version",
                   "prefLabel", "altLabel", "description", "citation", "image",
                   "preamble", "landingPage", "compute", "question", "ui"} :
           HasKey(e.schema, key)
    /\ SchemaGet(e.schema, "@id") = StrV(e.at_id)
    /\ SchemaGet(e.schema, "@type") = TypeV(e.at_type)
    /\ SchemaGet(e.schema, "@context") = StrV(e.at_context)
    /\ SchemaGet(e.schema, "schemaVersion") = StrV(e.schemaVersion)
    /\ SchemaGet(e.schema, "version") = StrV(e.version)
    /\ SchemaGet(e.schema, "prefLabel") = DictV(e.prefLabel)
    /\ SchemaGet(e.schema, "altLabel") = DictV(e.altLabel)
    /\ SchemaGet(e.schema, "description") = StrV(e.description)
    /\ SchemaGet(e.schema, "citation") = StrV(e.citation)
    /\ SchemaGet(e.schema, "image") = e.image
    /\ SchemaGet(e.schema, "preamble") = DictV(e.preamble)
    /\ SchemaGet(e.schema, "landingPage") = DictV(e.landingPage)
    /\ SchemaGet(e.schema, "compute") = ListV(e.compute)
    /\ SchemaGet(e.schema, "question") = DictV(e.question)
    /\ SchemaGet(e.schema, "ui") = UiV(e.ui.schema)
    /\ e.ui.schema = [shuffle |-> e.ui.shuffle, order |-> e.ui.order]

\* C11: after construction and any sequence of set_preamble,
\* set_landing_page, set_compute, set_filename and set_pref_label calls the
\* structure holds the current value of every schema-visible attribute and
\* its ui is the UI sub-document's structure.
C11_StructureIsProjection ==
    Ready => IsProjection(ent)

\* setters have changed the preamble, the landing page, the compute list and
\* the id, and the structure shows all of them
C11_Witness ==
    /\ Ready
    /\ lastOp \in {"set_preamble", "set_landing_page", "set_compute", "set_filename"}
    /\ DOMAIN ent.preamble # {}
    /\ DOMAIN ent.landingPage # {}
    /\ ent.compute # <<>>
    /\ SchemaGet(ent.schema, "compute") = ListV(ent.compute)
    /\ SchemaGet(ent.schema, "preamble") = DictV(ent.preamble)


\* the keys update() writes, besides ui
ProjectedValue(e, key) ==
    CASE key = "@id" -> StrV(e.at_id)
      [] key = "@type" -> TypeV(e.at_type)
      [] key = "@context" -> StrV(e.at_context)
      [] key = "schemaVersion" -> StrV(e.schemaVersion)
      [] key = "version" -> StrV(e.version)
      [] key = "prefLabel" -> DictV(e.prefLabel)
      [] key = "altLabel" -> DictV(e.altLabel)
      [] key = "description" -> StrV(e.description)
      [] key = "citation" -> StrV(e.citation)
      [] key = "image" -> e.image
      [] key = "preamble" -> DictV(e.preamble)
      [] key = "compute" -> ListV(e.compute)

SortedAttributeKeys ==
    {"@id", "@type", "@context", "schemaVersion", "version", "prefLabel",
     "altLabel", "description", "citation", "image", "preamble", "compute"}

C13_PrefLabelDefaultOnly ==
    [][ (lastOp' = "set_pref_label" /\ arg'.pref_label = None) =>
            /\ err' = ERR_NONE
            /\ IF DOMAIN ent.prefLabel = {}
                  \/ (DEFAULT_LANG \in DOMAIN ent.prefLabel
                      /\ ent.prefLabel[DEFAULT_LANG] \in {PROTOCOL, ACTIVITY, ITEM})
               THEN /\ ent'.prefLabel =
                           DictSet(ent.prefLabel, ent.lang,
                                   Replace(ent.at_id, <<"_">>, <<" ">>))
                    /\ SchemaGet(ent'.schema, "prefLabel") = DictV(ent'.prefLabel)
               ELSE ent' = ent ]_vars

\* the label re-derived from an id that already carries suffix and extension
C13_WitnessRederived ==
    /\ Ready
    /\ lastOp = "set_pref_label"
    /\ arg.pref_label = None
    /\ ent.prefLabel[ent.lang] = Replace(ent.at_id, <<"_">>, <<" ">>)
    /\ SchemaGet(ent.schema, "prefLabel") = DictV(ent.prefLabel)


\* the id of an entity built with the defaults of the constructor's signature
DefaultId == ACTIVITY \o DEFAULT_SUFFIX \o DEFAULT_EXT

\* the attributes hold the constructor's defaults
HasDefaultAttributes(e) ==
    /\ e.at_id = DefaultId
    /\ e.at_context = _default_context(DEFAULT_VERSION)
    /\ e.prefLabel = [en |-> ACTIVITY]
    /\ e.description = ACTIVITY
    /\ e.citation = <<>>
    /\ DOMAIN e.preamble = {}
    /\ e.compute = <<>>

\* a call of set_preamble, set_landing_page or set_compute that stores a value
StoresValue(op, a) ==
    \/ op = "set_compute"
    \/ (op = "set_preamble" /\ a.preamble # None)
    \/ (op = "set_landing_page" /\ a.page # None)

=============================================================================
